---- MODULE Spec2Model ----
(***************************************************************************)
(* A model of node-data-transform: the DataTransform stream               *)
(* (lib/dataTransform.js) and its Modifier registry (lib/modifier.js).    *)
(*                                                                         *)
(* Buffers are sequences of byte values.  Offsets are 0-based, as in the   *)
(* source, and are turned into 1-based sequence positions only inside     *)
(* Slice and BytesDiffer.                                                   *)
(***************************************************************************)
EXTENDS Integers, Sequences, FiniteSets, TLC

(***************************************************************************)
(* Bounds of the model.                                                    *)
(***************************************************************************)
MaxMods == 2        \* modifiers registered on the instance
MaxInput == 2       \* bytes of the input stream, over all its chunks
MaxPeerMods == 1    \* modifiers registered on the second instance

\* The bytes the input stream is made of ("a" and "b").
Bytes == {1, 2}

\* A value handed to the registration API as `match`: a Buffer, a string (its
\* UTF-16 code units), a number, or nothing at all.
MatchBuffer(b) == [type |-> "object", num |-> 0, seq |-> b]
MatchString(s) == [type |-> "string", num |-> 0, seq |-> s]
MatchNumber(n) == [type |-> "number", num |-> n, seq |-> << >>]
NoMatch == [type |-> "undefined", num |-> 0, seq |-> << >>]

\* The patterns handed to the registration API ("a" and "ab", as Buffers),
\* and the empty pattern, which is what `match || ""` yields when no match
\* or an empty string is given.
Patterns == {<<1>>, <<1, 2>>}
EmptyPattern == << >>

\* Match arguments of every type: a Buffer, strings, numbers and none.
TypedMatches ==
    {MatchBuffer(<<1>>), MatchString(<<1, 2>>), NoMatch, MatchNumber(0),
     MatchNumber(12)}

\* Paths of content files and of a content directory, and the file system
\* they are read from.  The unreadable path can be accessed but not read
\* (a directory, for one).
PresentPath == <<100>>
AbsentPath == <<101>>
UnreadablePath == <<102>>
DirectoryPath == <<103>>
InitialFs == [p \in {PresentPath, AbsentPath, UnreadablePath} |->
                 IF p = PresentPath
                 THEN [exists |-> TRUE, readable |-> TRUE, bytes |-> <<5>>]
                 ELSE IF p = UnreadablePath
                 THEN [exists |-> TRUE, readable |-> FALSE, bytes |-> << >>]
                 ELSE [exists |-> FALSE, readable |-> FALSE, bytes |-> << >>]]

\* Content entries: {string: ..}, {buffer: ..}, {file: ..}, {directory: ..}.
StringContent(s) == [kind |-> "string", val |-> s]
BufferContent(b) == [kind |-> "buffer", val |-> b]
FileContent(p) == [kind |-> "file", val |-> p]
DirectoryContent(p) == [kind |-> "directory", val |-> p]

\* The content arguments handed to append / prepend / replace: text and an
\* inline buffer; lists with file references; a directory.
ContentArgs == {<<StringContent(<<3>>)>>, <<BufferContent(<<4>>)>>}
FileContentArgs ==
    {<<FileContent(AbsentPath), StringContent(<<3>>)>>,
     <<FileContent(UnreadablePath), FileContent(PresentPath)>>,
     <<BufferContent(<<4>>), FileContent(AbsentPath)>>}
DirectoryContentArgs == {<<DirectoryContent(DirectoryPath)>>}

VARIABLES
    concat,             \* this.concat
    data,               \* this.data
    chunk_count,        \* this.chunk_count
    leftover_data,      \* this.leftover_data (<< >> stands for null)
    modifiers,          \* this.modifiers
    end_of_last_match,  \* this.end_of_last_match
    fs,                 \* the files content entries refer to
    match_pool,         \* the match arguments the caller registers with
    content_pool,       \* the content arguments the caller registers with
    peer,               \* a second DataTransform instance of the caller
    globs,              \* the Glob calls whose callback has not run yet
    framework,          \* the stream: chunks written, writing, ending
    in_progress,        \* the processChunk invocations that have not returned
    phase,              \* "setup", "open", "flushing", "ended" or "hung"
    registered,         \* history: the registration calls on this instance
    received,           \* history: the chunks handed to _transform
    calls,              \* history: the buffers handed to processChunk
    emitted,            \* history: the buffers handed to the stream callback
    events,             \* history: the 'compare' events emitted
    splices,            \* history: the splices of every processChunk call
    tests               \* history: the tests of every processChunk call

vars == <<concat, data, chunk_count, leftover_data, modifiers,
          end_of_last_match, fs, match_pool, content_pool, peer, globs,
          framework, in_progress, phase, registered, received, calls, emitted, events, splices, tests>>

(***************************************************************************)
(* Buffers.                                                                *)
(***************************************************************************)
Min(a, b) == IF a < b THEN a ELSE b
Max(a, b) == IF a > b THEN a ELSE b

\* A slice offset as Buffer.slice reads it: a negative offset counts from
\* the end, and the result is clamped to 0..length.
AdjustOffset(offset, length) ==
    IF offset < 0 THEN Max(offset + length, 0) ELSE Min(offset, length)

\* A slice that takes the byte at offset end as well.
SliceThroughEnd(chunk, start, end) ==
    LET s == AdjustOffset(start, Len(chunk))
        e == AdjustOffset(end + 1, Len(chunk))
    IN  IF e > s THEN SubSeq(chunk, s + 1, e) ELSE << >>

\* chunk.slice(start, end): the bytes at 0-based offsets start..end-1.
Slice(chunk, start, end) ==
    LET s == AdjustOffset(start, Len(chunk))
        e == AdjustOffset(end, Len(chunk))
    IN  IF e > s THEN SubSeq(chunk, s + 1, e) ELSE << >>

\* chunk[j] is a byte for 0 <= j < chunk.length and undefined elsewhere;
\* match[x] !== chunk[j] is then true.
BytesDiffer(match, x, chunk, j) ==
    \/ j < 0
    \/ j >= Len(chunk)
    \/ match[x + 1] # chunk[j + 1]

\* Buffer.from(string): the UTF-8 bytes of a string of char codes.
Utf8Char(c) == IF c < 128 THEN <<c>> ELSE <<192 + (c \div 64), 128 + (c % 64)>>

RECURSIVE BufferFromString(_)
BufferFromString(str) ==
    IF str = << >> THEN << >>
    ELSE Utf8Char(Head(str)) \o BufferFromString(Tail(str))

\* The concatenation of a sequence of buffers.
RECURSIVE Flatten(_)
Flatten(bufs) ==
    IF bufs = << >> THEN << >> ELSE Head(bufs) \o Flatten(Tail(bufs))

(***************************************************************************)
(* Modifier (lib/modifier.js).                                             *)
(***************************************************************************)
\* `match || ""`: a falsy match (none, the number 0, the empty string) is
\* replaced by the empty string; a Buffer is truthy whatever its length.
Falsy(match) ==
    \/ match.type = "undefined"
    \/ match.type = "number" /\ match.num = 0
    \/ match.type = "string" /\ match.seq = << >>

OrEmptyString(match) == IF Falsy(match) THEN MatchString(<< >>) ELSE match

\* `${n}`: the decimal text of an integer, as char codes.
RECURSIVE DecimalText(_)
DecimalText(n) ==
    IF n < 0 THEN <<45>> \o DecimalText(0 - n)
    ELSE IF n < 10 THEN <<48 + n>>
    ELSE DecimalText(n \div 10) \o <<48 + (n % 10)>>

\* getStringAsCharChode(str): the char code of every UTF-16 unit of str.
getStringAsCharChode(str) == [n \in 1..Len(str) |-> str[n]]

\* this.match as the constructor leaves it.
MatchOf(match) ==
    LET given == OrEmptyString(match)
        text == IF given.type = "number"
                THEN MatchString(DecimalText(given.num)) ELSE given
    IN  IF text.type = "string" THEN getStringAsCharChode(text.seq)
        ELSE text.seq

\* new Modifier(action, match, contents), for contents given as a list of
\* content entries (none: the empty list).  this.contents is always an
\* array; is_array stands for Array.isArray(modifier.contents).
Modifier(action, match, contents) ==
    [action |-> action, match |-> MatchOf(match), contents |-> contents,
     is_array |-> TRUE]

\* A modifier written as an object literal with a pattern of bytes:
\* {action, match, contents: entry} with the entries holding the one entry,
\* and {action, match} (contents undefined) with no entry.
ObjectModifier(action, match, entries) ==
    [action |-> action, match |-> match, contents |-> entries,
     is_array |-> FALSE]

\* directoryToFiles: the pattern handed to Glob.  A path that opens as a
\* directory gets "/" (unless it ends in one) and "*.*" appended.
GlobPattern(directory) ==
    IF directory = DirectoryPath
    THEN directory
         \o (IF directory[Len(directory)] # 47 THEN <<47>> ELSE << >>)
         \o <<42, 46, 42>>
    ELSE directory

\* The files Glob finds: the files of the directory, or the path itself
\* when it names a file.
GlobResult(pattern, fsys) ==
    IF pattern = DirectoryPath \o <<47, 42, 46, 42>> THEN <<PresentPath>>
    ELSE IF pattern \in DOMAIN fsys /\ fsys[pattern].exists THEN <<pattern>>
    ELSE << >>

\* The Glob calls the constructor makes for a modifier that becomes the
\* index-th modifier of the list of owner: one for every entry with a
\* non-empty `directory` string.  Their callbacks run later.
GlobCalls(owner, index, contents) ==
    {[owner |-> owner, index |-> index, entry |-> n,
      pattern |-> GlobPattern(contents[n].val)] :
        n \in {e \in 1..Len(contents) :
                  contents[e].kind = "directory" /\ contents[e].val # << >>}}

\* The callback of Glob: every file found is pushed on the contents.
RECURSIVE PushFiles(_, _)
PushFiles(files, result) ==
    IF result = << >> THEN files
    ELSE PushFiles(Append(files, FileContent(Head(result))), Tail(result))

(***************************************************************************)
(* Content resolution: appendFromFile and modifyChunk.                     *)
(***************************************************************************)
\* A file branch without its try/catch: a failure loses the buffer.
AppendFromFileLosing(buffer, filepath, fsys) ==
    IF /\ filepath \in DOMAIN fsys
       /\ fsys[filepath].exists
       /\ fsys[filepath].readable
    THEN buffer \o fsys[filepath].bytes
    ELSE << >>

\* appendFromFile(buffer, filepath), guarded by Fs.accessSync: the buffer
\* with the bytes of the file appended; the buffer itself when the file
\* cannot be accessed (accessSync throws) or cannot be read (the promise is
\* rejected): the error is caught and logged.
AppendFromFile(buffer, filepath, fsys) ==
    IF /\ filepath \in DOMAIN fsys
       /\ fsys[filepath].exists
       /\ fsys[filepath].readable
    THEN buffer \o fsys[filepath].bytes
    ELSE buffer

\* typeof content[field]: "undefined" for a field the entry does not have,
\* "string" for text and a path, "object" for a Buffer.
TypeOf(content, field) ==
    IF content.kind # field THEN "undefined"
    ELSE IF field = "buffer" THEN "object"
    ELSE "string"

\* One iteration of the loop of modifyChunk.
ModifyChunkEntry(chunk, content, fsys) ==
    IF TypeOf(content, "string") = "string"
    THEN chunk \o BufferFromString(content.val)
    ELSE IF TypeOf(content, "buffer") = "Buffer"
    THEN chunk \o content.val
    ELSE IF TypeOf(content, "file") = "string"
    THEN AppendFromFile(chunk, content.val, fsys)
    ELSE chunk

RECURSIVE ModifyChunkFrom(_, _, _, _)
ModifyChunkFrom(chunk, contents, n, fsys) ==
    IF n > Len(contents) THEN chunk
    ELSE ModifyChunkFrom(ModifyChunkEntry(chunk, contents[n], fsys),
                         contents, n + 1, fsys)

\* A conversion that wraps the contents whether they are an array or not:
\* an array becomes one entry that has no string, buffer or file.
NormaliseContentsAlways(modifier) ==
    IF modifier.contents = << >> /\ ~modifier.is_array THEN modifier
    ELSE [modifier EXCEPT !.is_array = TRUE,
              !.contents = IF modifier.is_array
                           THEN <<[kind |-> "array", val |-> << >>]>>
                           ELSE @]

\* What modifyChunk leaves of the modifier: contents that are undefined or
\* null stay (it returns at once), contents that are not an array become
\* the array of that one entry.
NormaliseContents(modifier) ==
    IF modifier.contents = << >> /\ ~modifier.is_array THEN modifier
    ELSE [modifier EXCEPT !.is_array = TRUE]

\* modifyChunk(chunk, modifier): the chunk it returns
ModifyChunk(chunk, modifier, fsys) ==
    ModifyChunkFrom(chunk, modifier.contents, 1, fsys)

(***************************************************************************)
(* processChunk.  The state of one call is a record:                       *)
(*   i          the index of the outer loop                                *)
(*   new_chunk  the output built so far                                    *)
(*   eolm       this.end_of_last_match                                     *)
(*   left       this.leftover_data (<< >> for null)                        *)
(*   ev         the 'compare' events emitted so far                        *)
(*   sp         the splices made so far (a trace, see Splice)              *)
(*   ts         the tests made so far (a trace, see TestModifier)          *)
(*   mods       this.modifiers as the call leaves them                     *)
(*   stop       the modifier loop was left with `break`                    *)
(*   returns    the call returns (FALSE: the outer loop never ends)        *)
(***************************************************************************)
\* A seek_length that stops one byte before the end of the chunk.
SeekLengthShort(match, chunk_remaining) ==
    IF Len(match) > chunk_remaining THEN chunk_remaining ELSE Len(match)

\* seek_length of a modifier, from the chunk_remaining of the iteration
SeekLength(match, chunk_remaining) ==
    IF Len(match) > chunk_remaining THEN chunk_remaining + 1 ELSE Len(match)

\* The loop `for(x; x < seek_length; x++)`: x when it ends, and found.
RECURSIVE MatchLoop(_, _, _, _, _)
MatchLoop(match, chunk, i, seek_length, x) ==
    IF x < seek_length
    THEN IF BytesDiffer(match, x, chunk, i + x)
         THEN [found |-> FALSE, x |-> x]
         ELSE MatchLoop(match, chunk, i, seek_length, x + 1)
    ELSE [found |-> TRUE, x |-> x]

\* The full-match branch of a modifier that is not a compare.  st.sp is a
\* trace of the splices of the call: which modifier (k) matched at which
\* index in which iteration of the outer loop (scan), the cursor it found,
\* and the bytes it copied from the chunk, got from modifyChunk and added.
Splice(chunk, modifier, fsys, st, k, scan) ==
    LET start == st.eolm
        end == IF modifier.action = "append"
               THEN st.i + Len(modifier.match) ELSE st.i
        slice == Slice(chunk, start, end)
        copied == st.new_chunk \o slice
        written == ModifyChunk(copied, modifier, fsys)
        withMatch == IF modifier.action = "prepend"
                     THEN written \o modifier.match ELSE written
        eolm == st.i + Len(modifier.match)
    IN  [st EXCEPT !.new_chunk = withMatch, !.eolm = eolm, !.i = eolm - 1,
                   !.mods[k] = NormaliseContents(@),
                   !.sp = Append(st.sp,
                       [modifier |-> k, index |-> st.i, scan |-> scan,
                        cursor |-> start, copied |-> slice,
                        inserted |-> SubSeq(written, Len(copied) + 1, Len(written)),
                        added |-> SubSeq(withMatch, Len(st.new_chunk) + 1,
                                         Len(withMatch))])]

\* A partial-match branch without its `break`.
SaveLeftoverNoBreak(chunk, st) ==
    [st EXCEPT !.left = Slice(chunk, st.i, Len(chunk)),
               !.new_chunk = st.new_chunk \o Slice(chunk, st.eolm, st.i)]

\* The partial-match branch: keep chunk[i..] for the next chunk, copy
\* chunk[end_of_last_match..i) and leave the modifier loop.
SaveLeftover(chunk, st) ==
    [st EXCEPT !.left = Slice(chunk, st.i, Len(chunk)),
               !.new_chunk = st.new_chunk \o Slice(chunk, st.eolm, st.i),
               !.stop = TRUE]

\* A compare branch that leaves the modifier loop.
EmitCompareAndBreak(st, k) ==
    [st EXCEPT !.ev = Append(st.ev, [modifier |-> k, index |-> st.i]),
               !.stop = TRUE]

\* The compare branch: emit 'compare' with the modifier and the index, and
\* `continue` with the next modifier.
EmitCompare(st, k) ==
    [st EXCEPT !.ev = Append(st.ev, [modifier |-> k, index |-> st.i])]

\* The body of the modifier loop for modifier k (1-based).
\* st.ts is a trace of the tests of the call: which modifier (k) was tested
\* at which index, with which cursor and which output built so far.
TestModifier(mods, fsys, chunk, chunk_remaining, k, st0) ==
    LET modifier == st0.mods[k]
        st == [st0 EXCEPT !.ts = Append(st0.ts,
                  [modifier |-> k, index |-> st0.i, cursor |-> st0.eolm,
                   output |-> st0.new_chunk])]
        seek_length == SeekLength(modifier.match, chunk_remaining)
        m == MatchLoop(modifier.match, chunk, st.i, seek_length, 0)
    IN  IF ~m.found THEN st
        ELSE IF m.x = Len(modifier.match)
        THEN IF modifier.action = "compare"
             THEN EmitCompare(st, k)
             ELSE Splice(chunk, modifier, fsys, st, k,
                         Len(chunk) - 1 - chunk_remaining)
        ELSE IF chunk_remaining < Len(modifier.match)
        THEN SaveLeftover(chunk, st)
        ELSE st

\* The loop `for(let k = 0; k < this.modifiers.length; k++)`, from k on.
RECURSIVE ModifierLoop(_, _, _, _, _, _)
ModifierLoop(mods, fsys, chunk, chunk_remaining, k, st) ==
    IF k > Len(mods) \/ st.stop THEN st
    ELSE ModifierLoop(mods, fsys, chunk, chunk_remaining, k + 1,
                      TestModifier(mods, fsys, chunk, chunk_remaining, k, st))

\* An iteration without the `break` on a stored leftover.
ScanStepGoesOn(mods, fsys, chunk, st) ==
    LET chunk_remaining == Len(chunk) - 1 - st.i
        after == ModifierLoop(mods, fsys, chunk, chunk_remaining, 1, st)
    IN  IF chunk_remaining = 0
        THEN [after EXCEPT !.stop = FALSE, !.new_chunk =
                 after.new_chunk \o Slice(chunk, after.eolm, Len(chunk))]
        ELSE [after EXCEPT !.stop = FALSE]

\* One iteration of the outer loop, up to (not including) its i++.
ScanStep(mods, fsys, chunk, st) ==
    LET chunk_remaining == Len(chunk) - 1 - st.i
        after == ModifierLoop(mods, fsys, chunk, chunk_remaining, 1, st)
    IN  IF after.left # << >> THEN [after EXCEPT !.stop = TRUE]
        ELSE IF chunk_remaining = 0
        THEN [after EXCEPT !.new_chunk =
                 after.new_chunk \o Slice(chunk, after.eolm, Len(chunk))]
        ELSE after

\* The loop `for(let i = 0; i < chunk.length; i++)`.  What an iteration does
\* to i depends on i alone, so the loop never ends once it starts an
\* iteration at an index it started one at before; an iteration that starts
\* at a negative index ends at a smaller or equal one.
RECURSIVE ScanLoop(_, _, _, _, _)
ScanLoop(mods, fsys, chunk, st, started) ==
    IF st.i >= Len(chunk) THEN st
    ELSE IF st.i < 0 \/ st.i \in started THEN [st EXCEPT !.returns = FALSE]
    ELSE LET after == ScanStep(mods, fsys, chunk, st)
         IN  IF after.stop THEN after
             ELSE ScanLoop(mods, fsys, chunk, [after EXCEPT !.i = after.i + 1],
                           started \cup {st.i})

\* A processChunk that does not reset this.end_of_last_match.
ProcessChunkNoReset(mods, fsys, chunk, eolm, left) ==
    IF Len(mods) = 0
    THEN [i |-> 0, new_chunk |-> chunk, eolm |-> eolm, left |-> left,
          ev |-> << >>, sp |-> << >>, ts |-> << >>, mods |-> mods,
          stop |-> FALSE, returns |-> TRUE]
    ELSE ScanLoop(mods, fsys, chunk,
                  [i |-> 0, new_chunk |-> << >>, eolm |-> eolm, left |-> left,
                   ev |-> << >>, sp |-> << >>, ts |-> << >>, mods |-> mods,
                   stop |-> FALSE, returns |-> TRUE], {})

\* processChunk(chunk), called with this.end_of_last_match = eolm and
\* this.leftover_data = left.
ProcessChunk(mods, fsys, chunk, eolm, left) ==
    IF Len(mods) = 0
    THEN [i |-> 0, new_chunk |-> chunk, eolm |-> eolm, left |-> left,
          ev |-> << >>, sp |-> << >>, ts |-> << >>, mods |-> mods,
          stop |-> FALSE, returns |-> TRUE]
    ELSE ScanLoop(mods, fsys, chunk,
                  [i |-> 0, new_chunk |-> << >>, eolm |-> 0, left |-> left,
                   ev |-> << >>, sp |-> << >>, ts |-> << >>, mods |-> mods,
                   stop |-> FALSE, returns |-> TRUE], {})

(***************************************************************************)
(* A whole stream as a function of the registry and the chunks: what the   *)
(* callbacks of _transform and _flush hand downstream up to the end of the *)
(* input, concatenated (returns: every processChunk call returned).        *)
(***************************************************************************)
\* Streaming mode: _transform chunk by chunk, then _flush.
RECURSIVE StreamingRun(_, _, _, _, _, _)
StreamingRun(mods, fsys, chunks, left, eolm, out) ==
    IF chunks = << >> THEN [returns |-> TRUE, out |-> out]
    ELSE LET buffer == IF left # << >> THEN left \o Head(chunks)
                       ELSE Head(chunks)
             r == ProcessChunk(mods, fsys, buffer, eolm, << >>)
         IN  IF ~r.returns THEN [returns |-> FALSE, out |-> out]
             ELSE StreamingRun(mods, fsys, Tail(chunks), r.left, r.eolm,
                               out \o r.new_chunk)

\* Concatenating mode: _transform only accumulates, _flush processes.
ConcatRun(mods, fsys, chunks) ==
    LET r == ProcessChunk(mods, fsys, Flatten(chunks), 0, << >>)
    IN  [returns |-> r.returns,
         out |-> IF r.returns THEN r.new_chunk ELSE << >>]

StreamOutput(mods, fsys, chunks, isConcat) ==
    IF isConcat THEN ConcatRun(mods, fsys, chunks)
    ELSE StreamingRun(mods, fsys, chunks, << >>, 0, << >>)

(***************************************************************************)
(* The instance: constructor, registration, _transform and _flush.         *)
(*                                                                         *)
(* The stream framework calls _transform for one chunk at a time, in       *)
(* delivery order, and _flush once after the callback of the last chunk.   *)
(* A handler whose processChunk never returns never calls its callback:     *)
(* the instance is then "hung" and no further handler runs.  Modifiers are *)
(* registered before the first chunk is piped in ("setup").                *)
(***************************************************************************)
\* The chunks the upstream may deliver: non-empty, of any length.
Chunks == UNION {[1..n -> Bytes] : n \in 1..MaxInput}

\* The fields of a second instance: not constructed by the caller, or
\* constructed streaming, with the array the caller also handed to this
\* instance as options.modifiers (shared) or with none.
NoPeer ==
    [constructed |-> FALSE, shared |-> FALSE, concat |-> FALSE,
     data |-> << >>, chunk_count |-> 0, leftover_data |-> << >>,
     modifiers |-> << >>, end_of_last_match |-> 0]

Peer(shared) == [NoPeer EXCEPT !.constructed = TRUE, !.shared = shared]

\* new DataTransform({concat: .., modifiers: ..}) with concat one of the
\* given modes and options.modifiers one of the given lists, for a caller
\* that registers the matches of the pool with the contents of the pool and
\* has the second instance be one of peers.
InitOptions(pool, contents, modes, peers, lists) ==
    /\ match_pool = pool
    /\ content_pool = contents
    /\ peer \in peers
    /\ concat \in modes
    /\ data = << >>
    /\ chunk_count = 0
    /\ leftover_data = << >>
    /\ modifiers \in lists
    /\ end_of_last_match = 0
    /\ fs = InitialFs
    /\ globs = {}
    /\ framework = [queue |-> << >>, writing |-> FALSE, ending |-> FALSE]
    /\ in_progress = << >>
    /\ phase = "setup"
    /\ registered = << >>
    /\ received = << >>
    /\ calls = << >>
    /\ emitted = << >>
    /\ events = << >>
    /\ splices = << >>
    /\ tests = << >>

\* new DataTransform({concat: ..}): options.modifiers is not given and the
\* list starts empty.
InitWith(pool, contents, modes, peers) ==
    InitOptions(pool, contents, modes, peers, {<< >>})

\* Buffers as match arguments.
Buffers(patterns) == {MatchBuffer(p) : p \in patterns}

\* A caller that registers non-empty patterns only.
Init == InitWith(Buffers(Patterns), ContentArgs, BOOLEAN, {NoPeer})

\* The same caller with {concat: true} and with {concat: false}.
InitConcat == InitWith(Buffers(Patterns), ContentArgs, {TRUE}, {NoPeer})
InitStreaming == InitWith(Buffers(Patterns), ContentArgs, {FALSE}, {NoPeer})

\* A caller that also registers the empty pattern.
InitAnyPattern ==
    InitWith(Buffers(Patterns) \cup {MatchString(EmptyPattern)}, ContentArgs,
             BOOLEAN, {NoPeer})

\* A caller that hands strings and numbers as matches.
InitTyped ==
    InitWith(TypedMatches, {<<StringContent(<<3>>)>>}, BOOLEAN, {NoPeer})

\* A caller whose contents refer to files.
InitFiles ==
    InitWith(Buffers({<<1>>}), FileContentArgs, {FALSE}, {NoPeer})

\* A caller whose contents name a directory.
InitDirectories ==
    InitWith(Buffers({<<1>>}), DirectoryContentArgs, BOOLEAN, {NoPeer})

\* A caller with two instances.
InitSessions ==
    InitWith(Buffers({<<1>>}), {<<StringContent(<<3>>)>>}, {FALSE},
             {Peer(FALSE), Peer(TRUE)})

\* A caller whose contents are read from a file, on a stream whose chunks
\* are written while earlier ones are processed.
InitSteps ==
    InitWith(Buffers({<<1>>}), {<<FileContent(PresentPath)>>}, BOOLEAN,
             {NoPeer})

\* A caller whose contents are one string.
InitPlain ==
    InitWith(Buffers(Patterns), {<<StringContent(<<3>>)>>}, BOOLEAN, {NoPeer})

\* The lists of up to n modifiers of a set.
RECURSIVE ListsOf(_, _)
ListsOf(set, n) ==
    IF n = 0 THEN {<< >>}
    ELSE LET shorter == ListsOf(set, n - 1)
         IN  shorter \cup {Append(list, m) : list \in shorter, m \in set}

\* The modifiers a caller makes with new Modifier(..) for options.modifiers:
\* a compare, an erase or a prepend of a string, on a pattern.
MadeModifiers ==
    {Modifier("compare", MatchBuffer(p), << >>) : p \in Patterns}
        \cup {Modifier("erase", MatchBuffer(p), << >>) : p \in Patterns}
        \cup {Modifier("prepend", MatchBuffer(p), <<StringContent(<<3>>)>>) :
                  p \in Patterns}

\* A caller that hands the constructor a list that starts with a compare
\* and registers nothing after it.
InitPreloaded ==
    InitOptions({}, {}, BOOLEAN, {NoPeer},
                {<<Modifier("compare", MatchBuffer(p), << >>)>> \o rest :
                     p \in Patterns, rest \in ListsOf(MadeModifiers, MaxMods)})

\* The modifiers a caller writes as object literals, with one string entry
\* as contents or with none, or makes with new Modifier(..).
GivenModifiers ==
    {ObjectModifier(action, p, <<StringContent(<<3>>)>>) :
         action \in {"replace", "append"}, p \in Patterns}
        \cup {ObjectModifier("erase", p, << >>) : p \in Patterns}
        \cup {Modifier("prepend", MatchBuffer(p), <<StringContent(<<3>>)>>) :
                  p \in Patterns}

\* A caller that hands the constructor a list of such modifiers and
\* registers nothing after it.
InitObjects ==
    InitOptions({}, {}, BOOLEAN, {NoPeer}, ListsOf(GivenModifiers, MaxMods))

\* Array.prototype.push put at the wrong end.
PushFront(list, modifier) == <<modifier>> \o list

\* this.modifiers.push(modifier)
Push(list, modifier) == Append(list, modifier)

\* The list of an instance.
ModifiersOf(self) == IF self = "this" THEN modifiers ELSE peer.modifiers

\* A write to the list of an instance: the other instance sees it when both
\* hold the same array.
SetModifiers(self, list) ==
    /\ modifiers' = IF self = "this" \/ peer.shared THEN list ELSE modifiers
    /\ peer' = [peer EXCEPT !.modifiers =
                   IF self = "peer" \/ peer.shared THEN list ELSE @]

\* modify(modifier), called on an instance
modify(self, modifier) ==
    /\ phase = "setup"
    /\ Len(ModifiersOf(self)) < MaxMods
    /\ SetModifiers(self, Push(ModifiersOf(self), modifier))
    /\ UNCHANGED <<concat, data, chunk_count, leftover_data, end_of_last_match,
                   fs, match_pool, content_pool, framework, in_progress,
                   phase, received, calls, emitted, events, splices, tests>>

\* new Modifier(action, match, contents) handed to modify, which returns the
\* instance it was called on.
Register(self, action, match, contents) ==
    /\ modify(self, Modifier(action, match, contents))
    /\ globs' = globs \cup
                    GlobCalls(self, Len(ModifiersOf(self)) + 1, contents)
    /\ registered' = Append(registered,
                         [instance |-> self, action |-> action,
                          match |-> match, contents |-> contents,
                          returned |-> self])

\* append(match, contents)
append == \E match \in match_pool, contents \in content_pool :
    Register("this", "append", match, contents)

\* compare(match)
compare == \E match \in match_pool :
    Register("this", "compare", match, << >>)

\* erase(match)
erase == \E match \in match_pool :
    Register("this", "erase", match, << >>)

\* prepend(match, contents)
prepend == \E match \in match_pool, contents \in content_pool :
    Register("this", "prepend", match, contents)

\* replace(match, contents)
replace == \E match \in match_pool, contents \in content_pool :
    Register("this", "replace", match, contents)

\* A registration on the second instance.
PeerRegister ==
    /\ peer.constructed
    /\ Len(SelectSeq(registered, LAMBDA r : r.instance = "peer"))
           < MaxPeerMods
    /\ \E match \in match_pool : Register("peer", "erase", match, << >>)

\* The callback of a Glob call of the constructor of a modifier.
GlobCallback == \E g \in globs :
    LET list == ModifiersOf(g.owner)
        files == PushFiles(list[g.index].contents,
                           GlobResult(g.pattern, fs))
    IN  /\ SetModifiers(g.owner,
                        [list EXCEPT ![g.index].contents = files])
        /\ globs' = globs \ {g}
        /\ UNCHANGED <<concat, data, chunk_count, leftover_data,
                       end_of_last_match, fs, match_pool, content_pool,
                       framework, in_progress, phase, registered, received,
                       calls, emitted, events, splices, tests>>

\* A _transform that forgets the leftover of the previous chunk.
WithLeftoverIgnored(left, chunk) == chunk

\* The buffer _transform hands to processChunk in streaming mode.
WithLeftover(left, chunk) == IF left # << >> THEN left \o chunk ELSE chunk

\* A _transform that does not reset this.leftover_data.
LeftoverKept(left) == left

\* this.leftover_data after the prepend: null.
LeftoverCleared(left) == IF left # << >> THEN << >> ELSE left

\* A concat branch that also hands the chunk downstream as it arrives.
TransformConcatEager(chunk) ==
    /\ concat
    /\ data' = data \o chunk
    /\ emitted' = Append(emitted, chunk)
    /\ phase' = "open"
    /\ UNCHANGED <<leftover_data, modifiers, peer, end_of_last_match, calls,
                   events, splices, tests>>

\* _transform(chunk, encoding, callback), concat branch
TransformConcat(chunk) ==
    /\ concat
    /\ data' = data \o chunk
    /\ phase' = "open"
    /\ UNCHANGED <<leftover_data, modifiers, peer, end_of_last_match, calls,
                   emitted, events, splices, tests>>

\* _transform(chunk, encoding, callback), streaming branch
TransformStreaming(chunk) ==
    /\ ~concat
    /\ LET buffer == WithLeftover(leftover_data, chunk)
           r == ProcessChunk(modifiers, fs, buffer, end_of_last_match,
                             LeftoverCleared(leftover_data))
       IN  /\ calls' = Append(calls, buffer)
           /\ SetModifiers("this", r.mods)
           /\ leftover_data' = r.left
           /\ end_of_last_match' = r.eolm
           /\ events' = events \o r.ev
           /\ splices' = Append(splices, r.sp)
           /\ tests' = Append(tests, r.ts)
           /\ emitted' = IF r.returns THEN Append(emitted, r.new_chunk)
                         ELSE emitted
           /\ phase' = IF r.returns THEN "open" ELSE "hung"
    /\ UNCHANGED data

\* _transform(chunk, encoding, callback), from the call to the callback
Transform == \E chunk \in Chunks :
    /\ phase \in {"setup", "open"}
    /\ Len(Flatten(received)) + Len(chunk) <= MaxInput
    /\ chunk_count' = chunk_count + 1
    /\ received' = Append(received, chunk)
    /\ \/ TransformConcat(chunk)
       \/ TransformStreaming(chunk)
    /\ UNCHANGED <<concat, fs, match_pool, content_pool, globs, framework,
                   in_progress, registered>>

\* _flush(callback), concat branch
FlushConcat ==
    /\ concat
    /\ LET r == ProcessChunk(modifiers, fs, data, end_of_last_match,
                             leftover_data)
       IN  /\ calls' = Append(calls, data)
           /\ SetModifiers("this", r.mods)
           /\ leftover_data' = r.left
           /\ end_of_last_match' = r.eolm
           /\ events' = events \o r.ev
           /\ splices' = Append(splices, r.sp)
           /\ tests' = Append(tests, r.ts)
           /\ data' = IF r.returns THEN r.new_chunk ELSE data
           /\ emitted' = IF r.returns THEN Append(emitted, r.new_chunk)
                         ELSE emitted
           /\ phase' = IF r.returns THEN "ended" ELSE "hung"

\* A streaming branch that hands the pending leftover downstream.
FlushStreamingLeftover ==
    /\ ~concat
    /\ phase' = "ended"
    /\ emitted' = IF leftover_data # << >> THEN Append(emitted, leftover_data)
                  ELSE emitted
    /\ UNCHANGED <<data, leftover_data, modifiers, peer, end_of_last_match,
                   calls, events, splices, tests>>

\* _flush(callback), streaming branch
FlushStreaming ==
    /\ ~concat
    /\ phase' = "ended"
    /\ UNCHANGED <<data, leftover_data, modifiers, peer, end_of_last_match,
                   calls, emitted, events, splices, tests>>

\* _flush(callback), from the call to the callback
Flush ==
    /\ phase \in {"setup", "open"}
    /\ \/ FlushConcat
       \/ FlushStreaming
    /\ UNCHANGED <<concat, chunk_count, fs, match_pool, content_pool, globs,
                   framework, in_progress, registered, received>>

(***************************************************************************)
(* The handlers step by step.  _transform and _flush are async functions:  *)
(* they run up to `await this.processChunk(..)`, are suspended while       *)
(* processChunk awaits modifyChunk (a file read, for one), and call their  *)
(* callback when it has returned.  The stream keeps the chunks written to  *)
(* it in a queue and calls _transform for the next one when no callback is *)
(* outstanding, and _flush when the input has ended and the queue is       *)
(* empty.                                                                  *)
(***************************************************************************)
\* write(chunk): the upstream hands a chunk to the stream.
Write == \E chunk \in Chunks :
    /\ phase \in {"setup", "open"}
    /\ ~framework.ending
    /\ Len(Flatten(received)) + Len(Flatten(framework.queue)) + Len(chunk)
           <= MaxInput
    /\ framework' = [framework EXCEPT !.queue = Append(@, chunk)]
    /\ UNCHANGED <<concat, data, chunk_count, leftover_data, modifiers,
                   end_of_last_match, fs, match_pool, content_pool, peer,
                   globs, in_progress, phase, registered, received, calls,
                   emitted, events, splices, tests>>

\* end(): the upstream ends the input.
EndInput ==
    /\ phase \in {"setup", "open"}
    /\ ~framework.ending
    /\ framework' = [framework EXCEPT !.ending = TRUE]
    /\ UNCHANGED <<concat, data, chunk_count, leftover_data, modifiers,
                   end_of_last_match, fs, match_pool, content_pool, peer,
                   globs, in_progress, phase, registered, received, calls,
                   emitted, events, splices, tests>>

\* this.end_of_last_match once processChunk has started.
CursorAtStart == IF Len(modifiers) = 0 THEN end_of_last_match ELSE 0

\* A streaming branch that calls back before it awaits processChunk.
TransformStreamingBeginEager(chunk) ==
    /\ ~concat
    /\ LET buffer == WithLeftover(leftover_data, chunk)
       IN  /\ calls' = Append(calls, buffer)
           /\ in_progress' = Append(in_progress,
                                 [handler |-> "_transform", buffer |-> buffer])
    /\ leftover_data' = LeftoverCleared(leftover_data)
    /\ end_of_last_match' = CursorAtStart
    /\ framework' = [framework EXCEPT !.queue = Tail(@), !.writing = FALSE]
    /\ phase' = "open"
    /\ UNCHANGED <<data, modifiers, peer, emitted, events, splices, tests>>

\* _transform, streaming branch, up to `await this.processChunk(chunk)`:
\* the callback is outstanding.
TransformStreamingBegin(chunk) ==
    /\ ~concat
    /\ LET buffer == WithLeftover(leftover_data, chunk)
       IN  /\ calls' = Append(calls, buffer)
           /\ in_progress' = Append(in_progress,
                                 [handler |-> "_transform", buffer |-> buffer])
    /\ leftover_data' = LeftoverCleared(leftover_data)
    /\ end_of_last_match' = CursorAtStart
    /\ framework' = [framework EXCEPT !.queue = Tail(@), !.writing = TRUE]
    /\ phase' = "open"
    /\ UNCHANGED <<data, modifiers, peer, emitted, events, splices, tests>>

\* The stream calls _transform for the next chunk of its queue.  The concat
\* branch calls back at once.
TransformBegin ==
    /\ phase \in {"setup", "open"}
    /\ framework.queue # << >>
    /\ ~framework.writing
    /\ LET chunk == Head(framework.queue)
       IN  /\ chunk_count' = chunk_count + 1
           /\ received' = Append(received, chunk)
           /\ \/ /\ TransformConcat(chunk)
                 /\ framework' = [framework EXCEPT !.queue = Tail(@)]
                 /\ UNCHANGED in_progress
              \/ TransformStreamingBegin(chunk)
    /\ UNCHANGED <<concat, fs, match_pool, content_pool, globs, registered>>

\* The sequence without its n-th element.
Without(seq, n) == SubSeq(seq, 1, n - 1) \o SubSeq(seq, n + 1, Len(seq))

\* _transform, streaming branch, from the return of processChunk on:
\* callback(null, chunk).
TransformEnd == \E n \in 1..Len(in_progress) :
    /\ in_progress[n].handler = "_transform"
    /\ LET r == ProcessChunk(modifiers, fs, in_progress[n].buffer,
                             end_of_last_match, leftover_data)
       IN  /\ r.returns
           /\ SetModifiers("this", r.mods)
           /\ leftover_data' = r.left
           /\ end_of_last_match' = r.eolm
           /\ events' = events \o r.ev
           /\ splices' = Append(splices, r.sp)
           /\ tests' = Append(tests, r.ts)
           /\ emitted' = Append(emitted, r.new_chunk)
    /\ in_progress' = Without(in_progress, n)
    /\ framework' = [framework EXCEPT !.writing = FALSE]
    /\ UNCHANGED <<concat, data, chunk_count, fs, match_pool, content_pool,
                   globs, phase, registered, received, calls>>

\* The stream calls _flush: the input has ended, every chunk written was
\* handed to _transform and no callback is outstanding.  The streaming
\* branch calls back at once.
FlushBegin ==
    /\ phase \in {"setup", "open"}
    /\ framework.ending
    /\ framework.queue = << >>
    /\ ~framework.writing
    /\ \/ /\ concat
          /\ calls' = Append(calls, data)
          /\ in_progress' = Append(in_progress,
                                [handler |-> "_flush", buffer |-> data])
          /\ end_of_last_match' = CursorAtStart
          /\ phase' = "flushing"
          /\ UNCHANGED <<data, leftover_data, modifiers, peer, emitted, events,
                         splices, tests>>
       \/ /\ FlushStreaming
          /\ UNCHANGED in_progress
    /\ UNCHANGED <<concat, chunk_count, fs, match_pool, content_pool, globs,
                   framework, registered, received>>

\* _flush, concat branch, from the return of processChunk on:
\* callback(null, this.data).
FlushEnd == \E n \in 1..Len(in_progress) :
    /\ in_progress[n].handler = "_flush"
    /\ LET r == ProcessChunk(modifiers, fs, in_progress[n].buffer,
                             end_of_last_match, leftover_data)
       IN  /\ r.returns
           /\ SetModifiers("this", r.mods)
           /\ leftover_data' = r.left
           /\ end_of_last_match' = r.eolm
           /\ events' = events \o r.ev
           /\ splices' = Append(splices, r.sp)
           /\ tests' = Append(tests, r.ts)
           /\ data' = r.new_chunk
           /\ emitted' = Append(emitted, r.new_chunk)
    /\ in_progress' = Without(in_progress, n)
    /\ phase' = "ended"
    /\ UNCHANGED <<concat, chunk_count, fs, match_pool, content_pool, globs,
                   framework, registered, received, calls>>

\* The operations on one instance, every handler taken from its call to its
\* callback.
Next ==
    \/ append
    \/ compare
    \/ erase
    \/ prepend
    \/ replace
    \/ Transform
    \/ Flush

\* The handlers alone, for a caller that registers nothing.
NextProcessing ==
    \/ Transform
    \/ Flush

\* The same with the registrations on a second instance.
NextSessions == Next \/ PeerRegister

\* The same with the callbacks of Glob.
NextDirectories == Next \/ GlobCallback

\* The operations on one instance, the handlers step by step.
NextSteps ==
    \/ append
    \/ compare
    \/ erase
    \/ prepend
    \/ replace
    \/ Write
    \/ EndInput
    \/ TransformBegin
    \/ TransformEnd
    \/ FlushBegin
    \/ FlushEnd

Spec == Init /\ [][Next]_vars

SpecConcat == InitConcat /\ [][Next]_vars

SpecStreaming == InitStreaming /\ [][Next]_vars

SpecAnyPattern == InitAnyPattern /\ [][Next]_vars

SpecTyped == InitTyped /\ [][Next]_vars

SpecFiles == InitFiles /\ [][Next]_vars

SpecDirectories == InitDirectories /\ [][NextDirectories]_vars

SpecSessions == InitSessions /\ [][NextSessions]_vars

SpecSteps == InitSteps /\ [][NextSteps]_vars

SpecPlain == InitPlain /\ [][Next]_vars

SpecPreloaded == InitPreloaded /\ [][NextProcessing]_vars

SpecObjects == InitObjects /\ [][NextProcessing]_vars

TypeOK ==
    /\ concat \in BOOLEAN
    /\ phase \in {"setup", "open", "flushing", "ended", "hung"}
    /\ chunk_count = Len(received)
    /\ Len(modifiers) <= MaxMods + 1

(***************************************************************************)
(* Properties.                                                             *)
(***************************************************************************)
\* The logical input stream and the total output so far.
Input == Flatten(received)
Output == Flatten(emitted)

\* The pattern occurs in the input at 0-based offset o.
OccursAt(pattern, input, o) ==
    /\ o >= 0
    /\ o + Len(pattern) <= Len(input)
    /\ SubSeq(input, o + 1, o + Len(pattern)) = pattern

Occurrences(pattern, input) ==
    {o \in 0..(Len(input) - 1) : OccursAt(pattern, input, o)}

\* chunk[a..b), empty unless 0 <= a < b <= chunk.length.
HalfOpen(chunk, a, b) ==
    IF 0 <= a /\ a < b /\ b <= Len(chunk) THEN SubSeq(chunk, a + 1, b)
    ELSE << >>

\* Every registered pattern is non-empty, as the data model requires.
NonEmptyPatterns == \A k \in 1..Len(modifiers) : modifiers[k].match # << >>

\* The bytes modifyChunk resolves the content of a modifier to.
ResolvedContent(modifier) == ModifyChunk(<< >>, modifier, fs)

\* The input with every leftmost-first, non-overlapping occurrence of a
\* non-empty pattern replaced by the content.
RECURSIVE ReplaceAll(_, _, _)
ReplaceAll(input, pattern, content) ==
    IF Len(input) < Len(pattern) THEN input
    ELSE IF SubSeq(input, 1, Len(pattern)) = pattern
    THEN content \o ReplaceAll(SubSeq(input, Len(pattern) + 1, Len(input)),
                               pattern, content)
    ELSE <<Head(input)>> \o ReplaceAll(Tail(input), pattern, content)

\* The registry without its k-th modifier.
WithoutModifier(mods, k) ==
    SubSeq(mods, 1, k - 1) \o SubSeq(mods, k + 1, Len(mods))

\* The number of 'compare' events emitted for the k-th modifier.
EventCount(k) == Cardinality({n \in 1..Len(events) : events[n].modifier = k})

\* C1: in streaming mode the concatenated output at the end of the stream is
\* byte-identical to the output of the same bytes processed as one chunk,
\* for every registry and every split into chunks.
C1_ChunkSizeInvariance ==
    (phase = "ended" /\ ~concat /\ NonEmptyPatterns) =>
        LET single == StreamOutput(modifiers, fs, <<Input>>, FALSE)
        IN  single.returns /\ Output = single.out

\* C2: if no registered pattern occurs anywhere in the input, the total
\* output at the end of the stream is the input, in both modes.
C2_IdentityOnNonMatch ==
    (/\ phase = "ended"
     /\ NonEmptyPatterns
     /\ \A k \in 1..Len(modifiers) :
            Occurrences(modifiers[k].match, Input) = {})
    => Output = Input

\* C3: with one Replace modifier (pattern P, content C) the total output is
\* the input with every leftmost-first, non-overlapping occurrence of P
\* replaced by C and every other byte forwarded unchanged.
C3_ReplaceLeftToRight ==
    (/\ phase = "ended"
     /\ Len(modifiers) = 1
     /\ modifiers[1].action = "replace"
     /\ NonEmptyPatterns)
    => Output = ReplaceAll(Input, modifiers[1].match,
                           ResolvedContent(modifiers[1]))

\* C4: at one starting offset of one processChunk call at most one
\* non-Compare modifier is applied, and it is the first in registration
\* order that fully matches there: a full match halts the testing of the
\* later modifiers at that offset.
C4_FirstRegisteredWins ==
    NonEmptyPatterns => \A c \in 1..Len(splices) :
        \A a \in 1..Len(splices[c]) :
            LET s == splices[c][a]
            IN  /\ \A b \in 1..Len(splices[c]) :
                       (b # a) => (splices[c][b].index # s.index
                                   /\ splices[c][b].scan # s.scan)
                /\ \A j \in 1..(s.modifier - 1) :
                       ~(/\ modifiers[j].action # "compare"
                         /\ OccursAt(modifiers[j].match, calls[c], s.index))

\* C5: a full match of a non-Compare modifier at offset i with cursor c adds
\* to the output exactly chunk[c..i) followed by match+content (append),
\* content+match (prepend), content (replace) or nothing (erase).
C5_ActionSplice ==
    NonEmptyPatterns => \A c \in 1..Len(splices) :
        \A a \in 1..Len(splices[c]) :
            LET s == splices[c][a]
                m == modifiers[s.modifier]
                content == ResolvedContent(m)
                expected ==
                    IF m.action = "append" THEN m.match \o content
                    ELSE IF m.action = "prepend" THEN content \o m.match
                    ELSE IF m.action = "replace" THEN content
                    ELSE << >>
            IN  s.added = HalfOpen(calls[c], s.cursor, s.index) \o expected

\* C6: adding a Compare modifier to a registry never changes the output
\* bytes produced by the end of the stream.
C6_CompareNonMutating ==
    (phase = "ended" /\ NonEmptyPatterns) =>
        \A k \in 1..Len(modifiers) :
            (modifiers[k].action = "compare") =>
                LET without == StreamOutput(WithoutModifier(modifiers, k), fs,
                                            received, concat)
                IN  without.returns /\ without.out = Output

\* C7: with a registry of Compare modifiers only, the number of 'compare'
\* events emitted for a modifier by the end of the stream is the number of
\* offsets of the input at which its pattern occurs.
C7_CompareOncePerOccurrence ==
    (/\ phase = "ended"
     /\ NonEmptyPatterns
     /\ \A k \in 1..Len(modifiers) : modifiers[k].action = "compare")
    => \A k \in 1..Len(modifiers) :
           EventCount(k) = Cardinality(Occurrences(modifiers[k].match, Input))

\* C8: in concatenating mode _transform only accumulates: before the input
\* ends no processChunk call is made and no output or compare event is
\* produced; once _flush has called back, processChunk was called exactly
\* once, on the whole accumulation, and exactly one output was emitted.
C8_ConcatMode ==
    concat =>
        /\ Len(calls) <= 1
        /\ Len(emitted) <= 1
        /\ (phase \in {"setup", "open"}) =>
               /\ data = Input
               /\ calls = << >>
               /\ emitted = << >>
               /\ events = << >>
        /\ (phase \in {"ended", "hung"}) => calls = <<Input>>
        /\ (phase = "ended") =>
               /\ emitted = <<ProcessChunk(modifiers, fs, Input, 0, << >>).new_chunk>>
               /\ data = emitted[1]

\* C8 witness: a concat stream of several chunks has ended with one output
\* that differs from the input.
C8_Witness ==
    /\ concat
    /\ phase = "ended"
    /\ chunk_count >= 2
    /\ Len(emitted) = 1
    /\ emitted[1] # Input
    /\ events # << >>

\* C9: in streaming mode every chunk causes exactly one processChunk call,
\* on leftover ++ chunk, whose output is emitted before the next chunk is
\* accepted: calls and outputs are in delivery order, one per chunk, and
\* nothing but the leftover is held back.
C9_StreamingMode ==
    [][(~concat /\ chunk_count' = chunk_count + 1) =>
          LET chunk == received'[chunk_count']
              buffer == leftover_data \o chunk
              r == ProcessChunk(modifiers, fs, buffer, end_of_last_match, << >>)
          IN  /\ received' = Append(received, chunk)
              /\ calls' = Append(calls, buffer)
              /\ Len(calls') = chunk_count'
              /\ data' = << >>
              /\ leftover_data' = r.left
              /\ (phase' = "open") =>
                     /\ emitted' = Append(emitted, r.new_chunk)
                     /\ Len(emitted') = chunk_count']_vars

\* C9 witness: the second chunk was processed behind the leftover of the
\* first and its output was emitted after the output of the first.
C9_Witness ==
    /\ ~concat
    /\ phase = "open"
    /\ chunk_count >= 2
    /\ Len(emitted) = chunk_count
    /\ calls[2] # received[2]
    /\ emitted[2] # << >>

\* C10: a full match of a modifier whose content is one inline buffer B
\* inserts exactly the bytes of B.
C10_InlineBufferInserted ==
    NonEmptyPatterns => \A c \in 1..Len(splices) :
        \A a \in 1..Len(splices[c]) :
            LET m == modifiers[splices[c][a].modifier]
            IN  (Len(m.contents) = 1 /\ m.contents[1].kind = "buffer")
                    => splices[c][a].inserted = m.contents[1].val

\* A file-reference entry that cannot be accessed or cannot be read.
Unavailable(entry) ==
    /\ entry.kind = "file"
    /\ ~(/\ entry.val \in DOMAIN fs
         /\ fs[entry.val].exists
         /\ fs[entry.val].readable)

\* A content list, and a registry, without the unavailable entries.
WithoutUnavailable(contents) ==
    SelectSeq(contents, LAMBDA entry : ~Unavailable(entry))

AllAvailable(mods) ==
    [k \in 1..Len(mods) |->
        [mods[k] EXCEPT !.contents = WithoutUnavailable(@)]]

\* The bytes an entry stands for: the text, or the bytes of the file.
EntryBytes(entry) ==
    IF entry.kind = "string" THEN entry.val
    ELSE IF entry.kind = "file" /\ ~Unavailable(entry)
    THEN fs[entry.val].bytes
    ELSE << >>

\* C11: a file-reference entry that cannot be accessed or read contributes
\* zero bytes: every splice inserts what the list without that entry
\* inserts (the other entries, in order), every processChunk call returns
\* the output the registry without such entries gives (the scan went on),
\* and its output reaches the stream callback.
C11_ResolutionFailureNonFatal ==
    /\ phase # "hung"
    /\ phase = "open" => Len(emitted) = Len(calls)
    /\ \A c \in 1..Len(calls) :
        /\ c <= Len(emitted) =>
               emitted[c] = ProcessChunk(AllAvailable(modifiers), fs,
                                         calls[c], 0, << >>).new_chunk
        /\ \A a \in 1..Len(splices[c]) :
               LET m == modifiers[splices[c][a].modifier]
                   kept == WithoutUnavailable(m.contents)
               IN  /\ splices[c][a].inserted =
                          ModifyChunk(<< >>, [m EXCEPT !.contents = kept], fs)
                   /\ (\A n \in 1..Len(kept) : kept[n].kind # "buffer") =>
                          splices[c][a].inserted =
                              Flatten([n \in 1..Len(kept) |->
                                          EntryBytes(kept[n])])

\* C11 witness: a splice whose first entry is an unavailable file inserted
\* the bytes of the entry after it, and a later offset of the same call was
\* spliced as well; the output was handed to the callback.
C11_Witness ==
    /\ phase = "open"
    /\ Len(emitted) = Len(calls)
    /\ \E c \in 1..Len(calls) : \E a, b \in 1..Len(splices[c]) :
           LET m == modifiers[splices[c][a].modifier]
           IN  /\ a < b
               /\ splices[c][a].index < splices[c][b].index
               /\ Len(m.contents) = 2
               /\ Unavailable(m.contents[1])
               /\ splices[c][a].inserted = EntryBytes(m.contents[2])
               /\ splices[c][a].inserted # << >>

\* C12: no modifier of the registry has a pattern of length 0: a
\* registration with an empty pattern fails instead.
C12_EmptyPatternRejected ==
    \A k \in 1..Len(modifiers) : Len(modifiers[k].match) > 0

\* C13: a pattern given as text is registered as its character codes, a
\* pattern given as a number n as the decimal text of n, for every n, and a
\* pattern given as raw bytes unchanged.
C13_PatternNormalisation ==
    \A k \in 1..Len(registered) :
        LET given == registered[k].match
        IN  /\ given.type = "string" => modifiers[k].match = given.seq
            /\ given.type = "number" =>
                   modifiers[k].match = DecimalText(given.num)
            /\ given.type = "object" => modifiers[k].match = given.seq

\* C14: a registration on one instance, or a chunk processed through it,
\* changes nothing of the other instance: not its registry, leftover,
\* cursor, accumulated data or output.
C14_SessionIndependence ==
    [][LET on == IF registered' # registered
                 THEN registered'[Len(registered')].instance ELSE "this"
       IN  /\ on = "this" => peer' = peer
           /\ on = "peer" => UNCHANGED <<modifiers, leftover_data,
                                         end_of_last_match, data, emitted>>
      ]_vars

\* C15: no processChunk call is made while the expansion of a directory
\* entry is still pending.
C15_ExpansionBeforeProcessing ==
    [][calls' # calls => globs = {}]_vars

\* The registrations that pushed on the list of this instance, in call
\* order: those on it, and those on the other instance when both hold one
\* array.
PushedOnThis(regs) ==
    SelectSeq(regs, LAMBDA r : r.instance = "this" \/ peer.shared)

\* C16: the modifier list is the initial (empty) list followed by the
\* modifiers registered on it, in call order, none dropped, duplicated or
\* reordered (each with the action, the pattern and the contents of its
\* call, before any file its directory entries expand to), and every
\* registration call returned the instance it was called on.
C16_RegistrationOrder ==
    LET pushed == PushedOnThis(registered)
    IN  /\ Len(modifiers) = Len(pushed)
        /\ \A k \in 1..Len(pushed) :
               LET made == Modifier(pushed[k].action, pushed[k].match,
                                    pushed[k].contents)
               IN  /\ modifiers[k].action = made.action
                   /\ modifiers[k].match = made.match
                   /\ SubSeq(modifiers[k].contents, 1, Len(made.contents))
                          = made.contents
        /\ \A n \in 1..Len(registered) :
               registered[n].returned = registered[n].instance

\* C16 witness: two different modifiers were registered on this instance,
\* one after the other.
C16_Witness ==
    /\ Len(modifiers) = 2
    /\ Len(registered) = 2
    /\ registered[1].instance = "this"
    /\ registered[2].instance = "this"
    /\ registered[1].action # registered[2].action
    /\ modifiers[1].action = registered[1].action
    /\ modifiers[2].action = registered[2].action

\* C17: at most one processChunk invocation is in progress at any time,
\* and while one is, its callback is outstanding; every invocation made
\* before it has returned and called back, and _flush starts only when no
\* invocation of _transform is in progress.
C17_SequentialProcessing ==
    /\ Len(in_progress) <= 1
    /\ Len(emitted) + Len(in_progress) = Len(calls)
    /\ in_progress # << >> =>
           IF in_progress[1].handler = "_transform"
           THEN framework.writing /\ phase = "open"
           ELSE phase = "flushing"
    /\ phase \in {"flushing", "ended"} =>
           \A n \in 1..Len(in_progress) :
               in_progress[n].handler = "_flush"

\* C17 witness: an invocation is suspended on the file read of a splice
\* while the next chunk has been written and waits.
C17_Witness ==
    /\ Len(in_progress) = 1
    /\ framework.writing
    /\ framework.queue # << >>
    /\ \E k \in 1..Len(modifiers) :
           /\ modifiers[k].action # "compare"
           /\ modifiers[k].contents # << >>
           /\ modifiers[k].contents[1].kind = "file"
           /\ Occurrences(modifiers[k].match, in_progress[1].buffer) # {}

\* C18: within one processChunk call every splice, and the leftover the
\* call stores, starts at or after the cursor, and no two splices cover a
\* common byte.
C18_MatchesNeverOverlap ==
    NonEmptyPatterns =>
        /\ \A c \in 1..Len(splices) : \A a, b \in 1..Len(splices[c]) :
               LET s == splices[c][a]
                   later == splices[c][b]
               IN  /\ s.index >= s.cursor
                   /\ a < b => s.index + Len(modifiers[s.modifier].match)
                                   <= later.index
        /\ (calls # << >> /\ leftover_data # << >>) =>
               Len(calls[Len(calls)]) - Len(leftover_data)
                   >= end_of_last_match

\* All bytes of the chunk from offset i on match the pattern, and are fewer
\* than the pattern is long.
PartialAt(pattern, chunk, i) ==
    /\ 0 <= i
    /\ i < Len(chunk)
    /\ Len(chunk) - i < Len(pattern)
    /\ SubSeq(chunk, i + 1, Len(chunk)) = SubSeq(pattern, 1, Len(chunk) - i)

\* C19: when a modifier tested at offset i (at or after the cursor) matches
\* all bytes up to the chunk end and they are fewer than its pattern, this
\* is the last test of the call (no further modifier, no further offset),
\* the output of the call ends with chunk[cursor..i) and chunk[i..end] is
\* the leftover: it is what the next call scans first.
C19_PartialMatchEndsScan ==
    \A c \in 1..Len(tests) : \A n \in 1..Len(tests[c]) :
        LET t == tests[c][n]
            chunk == calls[c]
        IN  (/\ t.cursor <= t.index
             /\ PartialAt(modifiers[t.modifier].match, chunk, t.index))
            => /\ n = Len(tests[c])
               /\ c <= Len(emitted) =>
                      emitted[c] = t.output
                                      \o HalfOpen(chunk, t.cursor, t.index)
               /\ c = Len(calls) =>
                      leftover_data = SubSeq(chunk, t.index + 1, Len(chunk))
               /\ c < Len(calls) =>
                      calls[c + 1] = SubSeq(chunk, t.index + 1, Len(chunk))
                                        \o received[c + 1]

\* C19 witness: a partial match ended a call although a modifier registered
\* later matches fully at the same offset.
C19_Witness ==
    \E c \in 1..Len(tests) :
        /\ tests[c] # << >>
        /\ LET t == tests[c][Len(tests[c])]
           IN  /\ PartialAt(modifiers[t.modifier].match, calls[c], t.index)
               /\ leftover_data # << >>
               /\ \E j \in (t.modifier + 1)..Len(modifiers) :
                      /\ modifiers[j].action # "compare"
                      /\ OccursAt(modifiers[j].match, calls[c], t.index)

\* C20: a streaming _transform that finds a leftover scans the leftover
\* followed by the new chunk; the leftover it leaves is empty or the tail
\* of that buffer from the offset of its own last test on.
C20_LeftoverCarryOver ==
    [][(~concat /\ chunk_count' = chunk_count + 1 /\ leftover_data # << >>)
       => /\ Len(calls') = Len(calls) + 1
          /\ Len(tests') = Len(calls')
          /\ LET buffer == calls'[Len(calls')]
                 scan == tests'[Len(tests')]
             IN  /\ buffer = leftover_data \o received'[chunk_count']
                 /\ \/ leftover_data' = << >>
                    \/ /\ scan # << >>
                       /\ leftover_data' =
                              SubSeq(buffer, scan[Len(scan)].index + 1,
                                     Len(buffer))
                       /\ PartialAt(modifiers[scan[Len(scan)].modifier].match,
                                    buffer, scan[Len(scan)].index)]_vars

\* C20 witness: the second call scanned the leftover of the first followed
\* by the second chunk and left a leftover of its own.
C20_Witness ==
    /\ ~concat
    /\ Len(calls) = 2
    /\ Len(calls[2]) > Len(received[2])
    /\ leftover_data # << >>
    /\ Len(leftover_data) < Len(calls[2])

\* a is a proper prefix of b.
ProperPrefix(a, b) ==
    /\ Len(a) < Len(b)
    /\ SubSeq(b, 1, Len(a)) = a

\* The length of the longest registered pattern.
LongestPattern ==
    CHOOSE n \in {Len(modifiers[k].match) : k \in 1..Len(modifiers)} :
        \A k \in 1..Len(modifiers) : Len(modifiers[k].match) <= n

\* C21: with non-empty patterns a stored leftover (<< >> is no leftover) has
\* at least one byte, is a proper prefix of a registered pattern and is
\* strictly shorter than the longest registered pattern, in every state.
C21_LeftoverBounded ==
    (NonEmptyPatterns /\ leftover_data # << >>) =>
        /\ Len(leftover_data) >= 1
        /\ \E k \in 1..Len(modifiers) :
               ProperPrefix(leftover_data, modifiers[k].match)
        /\ Len(leftover_data) < LongestPattern

\* C21 witness: a leftover is stored after the second of two chunks, under
\* a registry of two modifiers one of which spliced at the offset the
\* leftover starts at.
C21_Witness ==
    /\ leftover_data # << >>
    /\ chunk_count = 2
    /\ Len(calls) = 2
    /\ Len(modifiers) = 2
    /\ \E a \in 1..Len(splices[2]) :
           splices[2][a].index = Len(calls[2]) - Len(leftover_data)

\* C22: _flush in streaming mode hands nothing downstream and leaves the
\* pending leftover where it is, so the stream ends with one output per
\* chunk; _flush in concat mode, when its scan stops at a partial match at
\* offset i, hands down one output that ends with data[cursor..i) and keeps
\* data[i..end] as leftover.  Nothing is handed down after the end.
C22_NoFlushOfLeftover ==
    [][/\ (phase # "ended" /\ phase' = "ended" /\ ~concat) =>
              /\ emitted' = emitted
              /\ leftover_data' = leftover_data
              /\ Len(emitted) = Len(received)
       /\ (phase # "ended" /\ phase' = "ended" /\ concat
              /\ leftover_data' # << >>) =>
              LET scan == tests'[Len(tests')]
                  t == scan[Len(scan)]
              IN  /\ emitted' = <<t.output \o HalfOpen(data, t.cursor, t.index)>>
                  /\ leftover_data' = SubSeq(data, t.index + 1, Len(data))
       /\ phase = "ended" => emitted' = emitted
      ]_vars

\* C22 witness: a streaming stream has ended with a leftover pending and
\* with fewer bytes handed down than were received.
C22_Witness ==
    /\ phase = "ended"
    /\ ~concat
    /\ modifiers # << >>
    /\ leftover_data # << >>
    /\ Len(Output) < Len(Input)

\* C23: in streaming mode, with exactly one modifier (any action) whose
\* pattern is non-empty, the outputs handed down so far, concatenated, are
\* the output of one processChunk call on all bytes received so far, and
\* the pending leftover is the leftover of that call, for every input and
\* every split of it into chunks.
C23_SingleModifierBoundaryCarry ==
    (~concat /\ Len(modifiers) = 1 /\ NonEmptyPatterns) =>
        LET whole == ProcessChunk(modifiers, fs, Input, 0, << >>)
        IN  /\ whole.returns
            /\ Output = whole.new_chunk
            /\ leftover_data = whole.left

\* C23 witness: prepend of one byte before a two-byte pattern that arrived
\* as two chunks of one byte gave the three bytes of the one-chunk output.
C23_Witness ==
    /\ ~concat
    /\ phase = "ended"
    /\ Len(modifiers) = 1
    /\ modifiers[1].action = "prepend"
    /\ modifiers[1].match = <<1, 2>>
    /\ received = << <<1>>, <<2>> >>
    /\ emitted[1] = << >>
    /\ Output = <<3, 1, 2>>

\* The tests of compare modifiers that matched fully, as <<call, test>>.
CompareMatches ==
    {<<c, n>> \in UNION {{c} \X (1..Len(tests[c])) : c \in 1..Len(tests)} :
        LET t == tests[c][n]
        IN  /\ modifiers[t.modifier].action = "compare"
            /\ OccursAt(modifiers[t.modifier].match, calls[c], t.index)}

\* The 'compare' events are the full matches of compare modifiers.
EventPerCompareMatch ==
    /\ Len(events) = Cardinality(CompareMatches)
    /\ \A cn \in CompareMatches :
           LET t == tests[cn[1]][cn[2]]
           IN  \E e \in 1..Len(events) :
                   events[e] = [modifier |-> t.modifier, index |-> t.index]

\* With [.., Compare P, non-Compare Q, ..] both matching fully at an offset,
\* Q is spliced at that offset in the same call.
NextActionApplied ==
    \A cn \in CompareMatches :
        LET c == cn[1]
            t == tests[c][cn[2]]
            k == t.modifier
        IN  (/\ k < Len(modifiers)
             /\ modifiers[k + 1].action # "compare"
             /\ OccursAt(modifiers[k + 1].match, calls[c], t.index))
            => \E a \in 1..Len(splices[c]) :
                   /\ splices[c][a].modifier = k + 1
                   /\ splices[c][a].index = t.index

\* C24 as stated: a full match of a compare modifier at offset i emits the
\* event, and every modifier registered after it is tested at offset i in
\* the same call; the action of a non-compare modifier right after it that
\* matches at i is applied at i.
C24_CompareDoesNotSuppress ==
    NonEmptyPatterns =>
        /\ EventPerCompareMatch
        /\ NextActionApplied
        /\ \A cn \in CompareMatches :
               LET scan == tests[cn[1]]
                   n == cn[2]
                   k == scan[n].modifier
               IN  \A j \in (k + 1)..Len(modifiers) :
                       /\ n + j - k <= Len(scan)
                       /\ scan[n + j - k].modifier = j
                       /\ scan[n + j - k].index = scan[n].index

\* C24 amended: a full match of a compare modifier at offset i emits the
\* event; every modifier registered after it is tested next, in order, in
\* the same call, unless a modifier between them found a partial match at
\* the chunk end, and at offset i unless a modifier between them was
\* spliced; the one right after it is always tested at i, and its action is
\* applied at i when it matches there.
C24_CompareThenNextModifier ==
    NonEmptyPatterns =>
        /\ EventPerCompareMatch
        /\ NextActionApplied
        /\ \A cn \in CompareMatches :
               LET c == cn[1]
                   scan == tests[c]
                   n == cn[2]
                   k == scan[n].modifier
                   i == scan[n].index
                   Between(j) == (k + 1)..(j - 1)
               IN  \A j \in (k + 1)..Len(modifiers) :
                       /\ \/ /\ n + j - k <= Len(scan)
                             /\ scan[n + j - k].modifier = j
                          \/ \E b \in Between(j) :
                                 /\ n + b - k <= Len(scan)
                                 /\ PartialAt(modifiers[b].match, calls[c],
                                              scan[n + b - k].index)
                       /\ (n + j - k <= Len(scan) /\ scan[n + j - k].modifier = j)
                              => \/ scan[n + j - k].index = i
                                 \/ \E b \in Between(j) :
                                        \E a \in 1..Len(splices[c]) :
                                            /\ splices[c][a].modifier = b
                                            /\ splices[c][a].index = i
                       /\ j = k + 1 => /\ n + 1 <= Len(scan)
                                       /\ scan[n + 1].modifier = j
                                       /\ scan[n + 1].index = i

\* C24 witness: under [Compare P, non-Compare Q, R] the event of P at an
\* offset was emitted, Q was spliced at that offset, and R was tested in
\* the same round.
C24_Witness ==
    /\ Len(modifiers) = 3
    /\ modifiers[1].action = "compare"
    /\ modifiers[2].action # "compare"
    /\ \E c \in 1..Len(tests) : \E n \in 1..Len(tests[c]) :
           /\ <<c, n>> \in CompareMatches
           /\ tests[c][n].modifier = 1
           /\ events # << >>
           /\ \E a \in 1..Len(splices[c]) :
                  /\ splices[c][a].modifier = 2
                  /\ splices[c][a].index = tests[c][n].index
           /\ n + 2 <= Len(tests[c])
           /\ tests[c][n + 2].modifier = 3

\* The bytes an entry of a content list stands for: the bytes of an inline
\* buffer, else the text or the bytes of the file as they are now.
ResolvedEntry(entry) ==
    IF entry.kind = "buffer" THEN entry.val ELSE EntryBytes(entry)

\* C25: at every splice the bytes inserted are the entries of the content
\* list of the modifier, each resolved at that splice, concatenated in list
\* order, and they are written as one block right after the bytes copied
\* from the chunk up to the insertion point (before the match for prepend,
\* after it for append, in its place for replace).
C25_ContentListOrder ==
    \A c \in 1..Len(splices) : \A a \in 1..Len(splices[c]) :
        LET s == splices[c][a]
            m == modifiers[s.modifier]
            end == IF m.action = "append" THEN s.index + Len(m.match)
                   ELSE s.index
            resolved == Flatten([n \in 1..Len(m.contents) |->
                                    ResolvedEntry(m.contents[n])])
        IN  /\ s.inserted = resolved
            /\ s.copied = HalfOpen(calls[c], s.cursor, end)
            /\ s.added = s.copied \o resolved
                            \o (IF m.action = "prepend" THEN m.match
                                ELSE << >>)

\* The cursor a call leaves behind: the end of its last splice, or 0.
CursorAfter(mods, sp) ==
    IF sp = << >> THEN 0
    ELSE sp[Len(sp)].index + Len(mods[sp[Len(sp)].modifier].match)

\* C26: in every processChunk call under a non-empty registry of non-empty
\* patterns the cursor is 0 at the first test, never lower at a later test
\* or after a splice than before, and always within 0..length of the
\* scanned buffer; the cursor the call leaves is the end of its last splice
\* (0 without one), and a call that stores no leftover hands down what its
\* splices wrote followed by exactly chunk[cursor..end).
C26_CursorDiscipline ==
    [][(calls' # calls /\ modifiers # << >> /\ NonEmptyPatterns) =>
          LET c == Len(calls')
              chunk == calls'[c]
              scan == tests'[c]
              sp == splices'[c]
              out == emitted'[Len(emitted')]
          IN  /\ scan # << >> => scan[1].cursor = 0
              /\ \A n \in 1..Len(scan) :
                     /\ 0 <= scan[n].cursor
                     /\ scan[n].cursor <= Len(chunk)
                     /\ scan[n].cursor <= end_of_last_match'
                     /\ \A m \in n..Len(scan) :
                            scan[n].cursor <= scan[m].cursor
              /\ \A a \in 1..Len(sp) :
                     /\ sp[a].cursor <= sp[a].index
                                           + Len(modifiers[sp[a].modifier].match)
                     /\ sp[a].index + Len(modifiers[sp[a].modifier].match)
                            <= Len(chunk)
              /\ end_of_last_match' = CursorAfter(modifiers, sp)
              /\ end_of_last_match' <= Len(chunk)
              /\ leftover_data' = << >> =>
                     out = Flatten([a \in 1..Len(sp) |-> sp[a].added])
                              \o HalfOpen(chunk, end_of_last_match', Len(chunk))
      ]_vars

\* C26 witness: the first call moved the cursor with a splice, the second
\* call started at cursor 0 again, moved it and copied the rest of its
\* buffer.
C26_Witness ==
    /\ Len(calls) = 2
    /\ splices[1] # << >>
    /\ tests[2] # << >>
    /\ tests[2][1].cursor = 0
    /\ splices[2] # << >>
    /\ end_of_last_match >= 1
    /\ leftover_data = << >>

\* A step in which a processChunk call was made or has returned.
ProcessStep == calls' # calls \/ tests' # tests

C28_Termination ==
    /\ phase # "hung"
    /\ phase \in {"open", "ended"} =>
           \A c \in 1..Len(calls) :
               ProcessChunk(modifiers, fs, calls[c], 0, << >>).returns

\* Every registered modifier is a compare (none registered included).
CompareOnly == \A k \in 1..Len(modifiers) : modifiers[k].action = "compare"

\* C29: in streaming mode under a registry of compare modifiers only, or an
\* empty one, the outputs handed down so far followed by the pending
\* leftover are the bytes received so far, after every chunk.
C29_ByteConservation ==
    (~concat /\ CompareOnly) =>
        /\ phase # "hung"
        /\ Len(emitted) = Len(received)
        /\ Output \o leftover_data = Input

\* C29 witness: under compare modifiers two chunks were received, an event
\* was emitted, part of the bytes was handed down and the rest is pending.
C29_Witness ==
    /\ ~concat
    /\ modifiers # << >>
    /\ CompareOnly
    /\ chunk_count = 2
    /\ events # << >>
    /\ Output # << >>
    /\ leftover_data # << >>

====
